---- MODULE Spec2Model ----
(***************************************************************************)
(* A model of dmenu-desktop (src/main.rs): the scan of the applications    *)
(* directories, the resolution of each .desktop file into a DesktopEntry,  *)
(* the sort and projection handed to the picker, the lookup of the         *)
(* picker's answer and the launch of the chosen command.                   *)
(*                                                                         *)
(* Strings are sequences of one-character strings, so that trimming,       *)
(* splitting, substitution and tokenization are computed character by      *)
(* character as the program computes them.  An Option is a sequence of     *)
(* length at most one: None is << >> and Some(x) is << x >>.               *)
(***************************************************************************)
EXTENDS Integers, Sequences, FiniteSets, TLC

VARIABLES
    env,              \* the process environment: XDG_DATA_HOME, HOME, XDG_DATA_DIRS, PATH
    fsDirs,           \* what fs::read_dir answers: a sequence of <<path, Option(listing)>>
    fsFiles,          \* the set of paths for which Path::exists is true
    cli,              \* the parsed command line: entry_type, dmenu, terminal
    pc,               \* the position of main
    application_dirs, \* read_entries: the directories not yet scanned
    entries,          \* the entries read so far; sorted once main has sorted them
    entries_string,   \* the projected text
    output,           \* the picker's output
    selected,         \* the index in entries of the matched entry, 0 when none
    spawned,          \* the processes main has spawned, in order
    stdout,           \* what main printed to standard output
    message,          \* the last message on standard error, or the Err main returned
    exit              \* "running", "ok", "err" (main returned Err) or "panic"

vars == <<env, fsDirs, fsFiles, cli, pc, application_dirs, entries,
          entries_string, output, selected, spawned, stdout, message, exit>>

----------------------------------------------------------------------------
(* Options and strings *)

None == << >>
Some(x) == << x >>
IsSome(o) == Len(o) = 1
Unwrap(o) == o[1]

sApplication == <<"A","p","p","l","i","c","a","t","i","o","n">>
sTrue == <<"t","r","u","e">>
sFalse == <<"f","a","l","s","e">>
sDesktop == <<"d","e","s","k","t","o","p">>
sApplicationsDir == <<"a","p","p","l","i","c","a","t","i","o","n","s">>
sLocalShareApplications ==
    <<".","l","o","c","a","l","/","s","h","a","r","e","/">> \o sApplicationsDir
sUsrLocalShare == <<"/","u","s","r","/","l","o","c","a","l","/","s","h","a","r","e">>
sUsrShare == <<"/","u","s","r","/","s","h","a","r","e">>
sPlaceholder == <<"{","}">>

\* char::is_whitespace, on the characters of the model
WhiteSpace == {" ", "\t", "\n"}

\* the code point of a character (ASCII)
Code(c) ==
    CASE c = "\t" -> 9   [] c = "\n" -> 10  [] c = " " -> 32   [] c = "\"" -> 34
      [] c = "#" -> 35   [] c = "$" -> 36   [] c = "'" -> 39   [] c = "-" -> 45
      [] c = "." -> 46   [] c = "/" -> 47   [] c = ":" -> 58   [] c = "A" -> 65
      [] c = "B" -> 66   [] c = "\\" -> 92  [] c = "a" -> 97
      [] c = "b" -> 98   [] c = "c" -> 99   [] c = "d" -> 100  [] c = "e" -> 101
      [] c = "f" -> 102  [] c = "h" -> 104  [] c = "i" -> 105  [] c = "k" -> 107
      [] c = "l" -> 108  [] c = "m" -> 109  [] c = "n" -> 110  [] c = "o" -> 111
      [] c = "p" -> 112  [] c = "r" -> 114  [] c = "s" -> 115  [] c = "t" -> 116
      [] c = "u" -> 117  [] c = "v" -> 118  [] c = "x" -> 120  [] c = "{" -> 123
      [] c = "}" -> 125

\* char::to_lowercase, on the characters of the model
LowerChar(c) == CASE c = "A" -> "a" [] c = "B" -> "b" [] OTHER -> c

\* str::to_lowercase
ToLowercase(s) == [i \in 1..Len(s) |-> LowerChar(s[i])]

\* Ord for str: lexicographic on code points; -1, 0 or 1
RECURSIVE StrCmp(_, _)
StrCmp(a, b) ==
    IF a = << >> /\ b = << >> THEN 0
    ELSE IF a = << >> THEN -1
    ELSE IF b = << >> THEN 1
    ELSE IF Code(Head(a)) < Code(Head(b)) THEN -1
    ELSE IF Code(Head(a)) > Code(Head(b)) THEN 1
    ELSE StrCmp(Tail(a), Tail(b))

\* str::trim: leading and trailing whitespace removed
RECURSIVE TrimStart(_)
TrimStart(s) ==
    IF s # << >> /\ Head(s) \in WhiteSpace THEN TrimStart(Tail(s)) ELSE s

RECURSIVE TrimEnd(_)
TrimEnd(s) ==
    IF s # << >> /\ s[Len(s)] \in WhiteSpace
    THEN TrimEnd(SubSeq(s, 1, Len(s) - 1)) ELSE s

Trim(s) == TrimEnd(TrimStart(s))

\* whether pattern p occurs in s at position i
MatchesAt(s, p, i) ==
    /\ i + Len(p) - 1 <= Len(s)
    /\ \A k \in 1..Len(p) : s[i + k - 1] = p[k]

\* str::contains
Contains(s, p) == \E i \in 1..(Len(s) + 1) : MatchesAt(s, p, i)

\* str::replace: every non-overlapping occurrence of p, left to right
RECURSIVE ReplaceFrom(_, _, _, _)
ReplaceFrom(s, p, r, i) ==
    IF i > Len(s) THEN << >>
    ELSE IF MatchesAt(s, p, i) THEN r \o ReplaceFrom(s, p, r, i + Len(p))
    ELSE <<s[i]>> \o ReplaceFrom(s, p, r, i + 1)

Replace(s, p, r) == ReplaceFrom(s, p, r, 1)

\* str::split(sep) for a one-character separator: the pieces, at least one
RECURSIVE SplitOn(_, _, _)
SplitOn(s, sep, cur) ==
    IF s = << >> THEN <<cur>>
    ELSE IF Head(s) = sep THEN <<cur>> \o SplitOn(Tail(s), sep, << >>)
    ELSE SplitOn(Tail(s), sep, Append(cur, Head(s)))

\* the text of a sequence of strings, each followed by a newline
RECURSIVE Unlines(_)
Unlines(ls) ==
    IF ls = << >> THEN << >> ELSE Head(ls) \o <<"\n">> \o Unlines(Tail(ls))

----------------------------------------------------------------------------
(* shlex::split, the tokenizer main.rs calls on the picker command, on the *)
(* unmatched choice and on the command line to launch: words separated by  *)
(* whitespace, single and double quotes, backslash escapes, and a comment  *)
(* from a # at the start of a word to the end of the line.  The result is  *)
(* None on an unterminated quote or a trailing backslash.                  *)

BadWord == [ok |-> FALSE, tok |-> << >>, pos |-> 0]

\* the position after the end of the line that holds position i
RECURSIVE AfterComment(_, _)
AfterComment(s, i) ==
    IF i > Len(s) THEN i
    ELSE IF s[i] = "\n" THEN i + 1
    ELSE AfterComment(s, i + 1)

\* the position of the first character of the next word, 0 when there is none
RECURSIVE SkipToWord(_, _)
SkipToWord(s, i) ==
    IF i > Len(s) THEN 0
    ELSE IF s[i] \in WhiteSpace THEN SkipToWord(s, i + 1)
    ELSE IF s[i] = "#" THEN SkipToWord(s, AfterComment(s, i + 1))
    ELSE i

RECURSIVE ParseSingle(_, _, _)
ParseSingle(s, i, acc) ==
    IF i > Len(s) THEN BadWord
    ELSE IF s[i] = "'" THEN [ok |-> TRUE, tok |-> acc, pos |-> i + 1]
    ELSE ParseSingle(s, i + 1, Append(acc, s[i]))

RECURSIVE ParseDouble(_, _, _)
ParseDouble(s, i, acc) ==
    IF i > Len(s) THEN BadWord
    ELSE IF s[i] = "\"" THEN [ok |-> TRUE, tok |-> acc, pos |-> i + 1]
    ELSE IF s[i] = "\\" THEN
        IF i + 1 > Len(s) THEN BadWord
        ELSE IF s[i + 1] \in {"$", "\"", "\\"}  \* and the backquote, which no string of the model holds
             THEN ParseDouble(s, i + 2, Append(acc, s[i + 1]))
        ELSE IF s[i + 1] = "\n" THEN ParseDouble(s, i + 2, acc)
        ELSE ParseDouble(s, i + 2, acc \o <<"\\", s[i + 1]>>)
    ELSE ParseDouble(s, i + 1, Append(acc, s[i]))

RECURSIVE ParseWord(_, _, _)
ParseWord(s, i, acc) ==
    IF i > Len(s) THEN [ok |-> TRUE, tok |-> acc, pos |-> i]
    ELSE IF s[i] = "\"" THEN
        LET r == ParseDouble(s, i + 1, acc)
        IN  IF r.ok THEN ParseWord(s, r.pos, r.tok) ELSE BadWord
    ELSE IF s[i] = "'" THEN
        LET r == ParseSingle(s, i + 1, acc)
        IN  IF r.ok THEN ParseWord(s, r.pos, r.tok) ELSE BadWord
    ELSE IF s[i] = "\\" THEN
        IF i + 1 > Len(s) THEN BadWord
        ELSE ParseWord(s, i + 2, IF s[i + 1] = "\n" THEN acc ELSE Append(acc, s[i + 1]))
    ELSE IF s[i] \in WhiteSpace THEN [ok |-> TRUE, tok |-> acc, pos |-> i + 1]
    ELSE ParseWord(s, i + 1, Append(acc, s[i]))

RECURSIVE ShlexCollect(_, _, _)
ShlexCollect(s, i, toks) ==
    LET j == SkipToWord(s, i)
    IN  IF j = 0 THEN Some(toks)
        ELSE LET r == ParseWord(s, j, << >>)
             IN  IF r.ok THEN ShlexCollect(s, r.pos, Append(toks, r.tok)) ELSE None

\* Option<Vec<String>>
ShlexSplit(s) == ShlexCollect(s, 1, << >>)

----------------------------------------------------------------------------
(* Paths *)

IsAbsolute(p) == p # << >> /\ Head(p) = "/"

\* PathBuf::join: an absolute p replaces base; a separator is added unless
\* base is empty or ends with one
Join(base, p) ==
    IF IsAbsolute(p) THEN p
    ELSE IF base = << >> \/ base[Len(base)] = "/" THEN base \o p
    ELSE base \o <<"/">> \o p

\* env::split_paths: the pieces between the colons
SplitPaths(s) == SplitOn(s, ":", << >>)

\* the position of the last "." of a file name, 0 when it has none
RECURSIVE LastDot(_, _)
LastDot(name, i) ==
    IF i = 0 THEN 0 ELSE IF name[i] = "." THEN i ELSE LastDot(name, i - 1)

\* Path::file_stem of a path whose last component is name
FileStem(name) ==
    LET d == LastDot(name, Len(name))
    IN  IF d <= 1 THEN Some(name) ELSE Some(SubSeq(name, 1, d - 1))

\* Path::extension of a path whose last component is name
Extension(name) ==
    LET d == LastDot(name, Len(name))
    IN  IF d <= 1 THEN None ELSE Some(SubSeq(name, d + 1, Len(name)))

\* Path::exists
Exists(p, files) == p \in files

\* fs::read_dir: Some(listing) for a readable directory, None for an error
ReadDir(path, dirs) ==
    IF \E k \in 1..Len(dirs) : dirs[k][1] = path
    THEN dirs[CHOOSE k \in 1..Len(dirs) : dirs[k][1] = path][2]
    ELSE None

----------------------------------------------------------------------------
(* DesktopEntry *)

\* exists_on_path: whether exec exists under a directory of PATH
RECURSIVE AnyDirHolds(_, _, _)
AnyDirHolds(path_dirs, exec, files) ==
    IF path_dirs = << >> THEN FALSE
    ELSE IF Exists(Join(Head(path_dirs), exec), files) THEN TRUE
    ELSE AnyDirHolds(Tail(path_dirs), exec, files)

\* exists_on_path with the loop left after its first directory
exists_on_path_first_dir(exec, path_var, files) ==
    IF path_var = None THEN FALSE
    ELSE Exists(Join(Head(SplitPaths(Unwrap(path_var))), exec), files)

exists_on_path(exec, path_var, files) ==
    IF path_var = None THEN FALSE
    ELSE AnyDirHolds(SplitPaths(Unwrap(path_var)), exec, files)

\* the hide flag of DesktopEntry::from_ini
HideOf(section, path_var, files) ==
    LET exec_exists ==
            IF IsSome(section.TryExec)
            THEN \/ Exists(Unwrap(section.TryExec), files)
                 \/ exists_on_path(Unwrap(section.TryExec), path_var, files)
            ELSE TRUE
    IN  \/ ~exec_exists
        \/ section.NoDisplay = Some(sTrue)
        \/ section.Hidden = Some(sTrue)

\* DesktopEntry::from_ini: ini is the "Desktop Entry" section of the file, if any
from_ini(filename, ini, path_var, files) ==
    IF ini = None THEN None
    ELSE LET section == Unwrap(ini)
         IN  IF section.Type # Some(sApplication) THEN None
             ELSE IF section.Name = None THEN None
             ELSE IF section.Exec = None THEN None
             ELSE Some([name     |-> Unwrap(section.Name),
                        filename |-> filename,
                        exec     |-> Unwrap(section.Exec),
                        hide     |-> HideOf(section, path_var, files),
                        terminal |-> (section.Terminal = Some(sTrue)),
                        path     |-> section.Path])

\* the first element of str::split(" ")
RECURSIVE FirstPiece(_)
FirstPiece(s) ==
    IF s = << >> \/ Head(s) = " " THEN << >> ELSE <<Head(s)>> \o FirstPiece(Tail(s))

\* DesktopEntry::field
field(e, entry_type) ==
    CASE entry_type = "Name" -> e.name
      [] entry_type = "Filename" -> e.filename
      [] entry_type = "Command" -> FirstPiece(e.exec)

----------------------------------------------------------------------------
(* The scan of the directories *)

\* read_entries, the directories: None when neither XDG_DATA_HOME nor HOME is set
ApplicationDirs(e) ==
    LET data_dirs ==
            IF IsSome(e.XDG_DATA_DIRS) THEN SplitPaths(Unwrap(e.XDG_DATA_DIRS))
            ELSE <<sUsrLocalShare, sUsrShare>>
        rest == [k \in 1..Len(data_dirs) |-> Join(data_dirs[k], sApplicationsDir)]
    IN  IF IsSome(e.XDG_DATA_HOME)
        THEN Some(<<Join(Unwrap(e.XDG_DATA_HOME), sApplicationsDir)>> \o rest)
        ELSE IF IsSome(e.HOME)
        THEN Some(<<Join(Unwrap(e.HOME), sLocalShareApplications)>> \o rest)
        ELSE None

\* get_entries, one file of the listing: the entry it gives, if any
EntryOfFile(file, path_var, files) ==
    IF Extension(file.name) # Some(sDesktop) THEN None
    ELSE IF ~file.loads THEN None
    ELSE from_ini(Unwrap(FileStem(file.name)), file.ini, path_var, files)

RECURSIVE EntriesOfListing(_, _, _)
EntriesOfListing(listing, path_var, files) ==
    IF listing = << >> THEN << >>
    ELSE EntryOfFile(Head(listing), path_var, files)
             \o EntriesOfListing(Tail(listing), path_var, files)

\* get_entries
get_entries(path, dirs, path_var, files) ==
    LET applications == ReadDir(path, dirs)
    IN  IF applications = None THEN << >>
        ELSE EntriesOfListing(Unwrap(applications), path_var, files)

----------------------------------------------------------------------------
(* main: sort, projection, lookup, command line *)

SortKeyLess(a, b) == StrCmp(ToLowercase(a.name), ToLowercase(b.name)) < 0

\* e placed after every element that is not greater: the sort is stable
RECURSIVE InsertSorted(_, _)
InsertSorted(sorted, e) ==
    IF sorted = << >> THEN <<e>>
    ELSE IF SortKeyLess(e, Head(sorted)) THEN <<e>> \o sorted
    ELSE <<Head(sorted)>> \o InsertSorted(Tail(sorted), e)

RECURSIVE SortFrom(_, _)
SortFrom(es, acc) ==
    IF es = << >> THEN acc ELSE SortFrom(Tail(es), InsertSorted(acc, Head(es)))

\* entries.sort_by(lowercased name)
SortEntries(es) == SortFrom(es, << >>)

\* the loop that builds entries_string, with hidden_entries as built so far
RECURSIVE ProjectFrom(_, _, _)
ProjectFrom(es, hidden_entries, entry_type) ==
    IF es = << >> THEN << >>
    ELSE LET entry == Head(es)
         IN  IF entry.hide
             THEN ProjectFrom(Tail(es), Append(hidden_entries, entry), entry_type)
             ELSE IF \E k \in 1..Len(hidden_entries) : hidden_entries[k].name = entry.name
             THEN field(entry, entry_type) \o <<"\n">>
                      \o ProjectFrom(Tail(es), hidden_entries, entry_type)
             ELSE ProjectFrom(Tail(es), hidden_entries, entry_type)

Project(es, entry_type) == ProjectFrom(es, << >>, entry_type)

\* entries.iter().find(field == output.trim()): the index found, 0 for none
FindEntry(es, entry_type, out) ==
    IF \E i \in 1..Len(es) : field(es[i], entry_type) = Trim(out)
    THEN CHOOSE i \in 1..Len(es) :
             /\ field(es[i], entry_type) = Trim(out)
             /\ \A j \in 1..(i - 1) : field(es[j], entry_type) # Trim(out)
    ELSE 0

\* the command string with the terminal template never applied
CommandStringUnwrapped(entry, terminal) == Some(entry.exec)

\* the command string with the template's placeholder never looked for
CommandStringUnchecked(entry, terminal) ==
    IF IsSome(terminal) /\ entry.terminal
    THEN Some(Replace(Unwrap(terminal), sPlaceholder, entry.exec))
    ELSE Some(entry.exec)

\* the command string to launch for the entry: Some(string), or None when the
\* terminal template is used and holds no placeholder
CommandString(entry, terminal) ==
    IF IsSome(terminal) /\ entry.terminal
    THEN IF ~Contains(Unwrap(terminal), sPlaceholder) THEN None
         ELSE Some(Replace(Unwrap(terminal), sPlaceholder, entry.exec))
    ELSE Some(entry.exec)

\* a process spawned from a Command: its program, arguments, working
\* directory if one is set, and what is written to its standard input
Proc(kind, split, cwd, stdin) ==
    [kind |-> kind, program |-> Head(split), args |-> Tail(split),
     cwd |-> cwd, stdin |-> stdin]

Msg(text) == [text |-> text, code |-> 0]

Fail(text) ==
    /\ exit' = "err"
    /\ message' = Msg(text)
    /\ pc' = "done"

\* Vec::remove(0) on an empty vector
Panic(text) ==
    /\ exit' = "panic"
    /\ message' = Msg(text)
    /\ pc' = "done"

\* what the picker may write: the field of an entry and a newline, nothing at
\* all, a command, an unterminated quote
ExtraOutputs ==
    { << >>, <<"e","c","h","o"," ","h","i","\n">>, <<"'","\n">> }

PickerOutputs ==
    {field(entries[i], cli.entry_type) \o <<"\n">> : i \in 1..Len(entries)}
        \cup ExtraOutputs

\* what the fallback command may write, and its exit code (None: killed by a signal)
ChildOutputs == { << >>, <<"h","i","\n">> }
ChildCodes == { Some(0), Some(1), None }

----------------------------------------------------------------------------
(* The steps of main *)

\* read_entries, lines 196-215
ReadEntriesDirs ==
    /\ pc = "start"
    /\ IF ApplicationDirs(env) = None
       THEN /\ Fail("HomeNotFound")
            /\ UNCHANGED application_dirs
       ELSE /\ application_dirs' = Unwrap(ApplicationDirs(env))
            /\ pc' = "scan"
            /\ UNCHANGED <<exit, message>>
    /\ UNCHANGED <<env, fsDirs, fsFiles, cli, entries, entries_string, output,
                   selected, spawned, stdout>>

\* read_entries, lines 218-221: one directory
GetEntries ==
    /\ pc = "scan"
    /\ entries' = entries \o get_entries(Head(application_dirs), fsDirs, env.PATH, fsFiles)
    /\ application_dirs' = Tail(application_dirs)
    /\ pc' = IF Tail(application_dirs) = << >> THEN "sort" ELSE "scan"
    /\ UNCHANGED <<env, fsDirs, fsFiles, cli, entries_string, output, selected,
                   spawned, stdout, message, exit>>

\* main, lines 110-122
SortProject ==
    /\ pc = "sort"
    /\ entries' = SortEntries(entries)
    /\ entries_string' = Project(SortEntries(entries), cli.entry_type)
    /\ pc' = "menu"
    /\ UNCHANGED <<env, fsDirs, fsFiles, cli, application_dirs, output, selected,
                   spawned, stdout, message, exit>>

\* main, lines 124-127
NoPicker ==
    /\ pc = "menu"
    /\ cli.dmenu = None
    /\ stdout' = stdout \o entries_string
    /\ exit' = "ok"
    /\ pc' = "done"
    /\ UNCHANGED <<env, fsDirs, fsFiles, cli, application_dirs, entries,
                   entries_string, output, selected, spawned, message>>

\* main, lines 129-146
SpawnPicker ==
    /\ pc = "menu"
    /\ cli.dmenu # None
    /\ LET dmenu_split == ShlexSplit(Unwrap(cli.dmenu))
       IN  IF dmenu_split = None
           THEN Fail("Invalid dmenu command.") /\ UNCHANGED spawned
           ELSE IF Unwrap(dmenu_split) = << >>
           THEN Panic("dmenu_split.remove(0)") /\ UNCHANGED spawned
           ELSE \E ok \in BOOLEAN :
                    IF ok
                    THEN /\ spawned' = Append(spawned,
                                Proc("picker", Unwrap(dmenu_split), None, entries_string))
                         /\ pc' = "picker"
                         /\ UNCHANGED <<exit, message>>
                    ELSE Fail("spawn") /\ UNCHANGED spawned
    /\ UNCHANGED <<env, fsDirs, fsFiles, cli, application_dirs, entries,
                   entries_string, output, selected, stdout>>

\* main, lines 147-148
PickerExit ==
    /\ pc = "picker"
    /\ \/ \E out \in PickerOutputs :
              /\ output' = out
              /\ pc' = "lookup"
              /\ UNCHANGED <<exit, message>>
       \/ Fail("wait_with_output") /\ UNCHANGED output
       \/ Panic("Output should be valid UTF8") /\ UNCHANGED output
    /\ UNCHANGED <<env, fsDirs, fsFiles, cli, application_dirs, entries,
                   entries_string, selected, spawned, stdout>>

\* main, lines 150-153
MatchLookup ==
    /\ pc = "lookup"
    /\ selected' = FindEntry(entries, cli.entry_type, output)
    /\ pc' = IF FindEntry(entries, cli.entry_type, output) = 0 THEN "fallback" ELSE "launch"
    /\ UNCHANGED <<env, fsDirs, fsFiles, cli, application_dirs, entries,
                   entries_string, output, spawned, stdout, message, exit>>

\* main, lines 154-165
Fallback ==
    /\ pc = "fallback"
    /\ LET split == ShlexSplit(Trim(output))
       IN  IF split = None
           THEN Fail("Invalid command.") /\ UNCHANGED <<spawned, stdout>>
           ELSE IF Unwrap(split) = << >>
           THEN Panic("split.remove(0)") /\ UNCHANGED <<spawned, stdout>>
           ELSE \E ok \in BOOLEAN, out \in ChildOutputs, code \in ChildCodes :
                    IF ok
                    THEN /\ spawned' = Append(spawned,
                                Proc("fallback", Unwrap(split), None, << >>))
                         /\ stdout' = stdout \o out \o <<"\n">>
                         /\ message' = [text |-> "Command exited with status",
                                        code |-> IF IsSome(code) THEN Unwrap(code) ELSE -1]
                         /\ exit' = "ok"
                         /\ pc' = "done"
                    ELSE Fail("output") /\ UNCHANGED <<spawned, stdout>>
    /\ UNCHANGED <<env, fsDirs, fsFiles, cli, application_dirs, entries,
                   entries_string, output, selected>>

\* main, lines 167-192
Launch ==
    /\ pc = "launch"
    /\ LET selected_entry == entries[selected]
           command_string == CommandString(selected_entry, cli.terminal)
       IN  IF command_string = None
           THEN Fail("Invalid terminal command") /\ UNCHANGED spawned
           ELSE LET exec_split == ShlexSplit(Unwrap(command_string))
                IN  IF exec_split = None
                    THEN Fail("Invalid exec key.") /\ UNCHANGED spawned
                    ELSE IF Unwrap(exec_split) = << >>
                    THEN Panic("exec_split.remove(0)") /\ UNCHANGED spawned
                    ELSE \E ok \in BOOLEAN :
                             /\ spawned' = IF ok
                                           THEN Append(spawned,
                                                    Proc("app", Unwrap(exec_split),
                                                         selected_entry.path, << >>))
                                           ELSE spawned
                             /\ message' = IF ok THEN message
                                           ELSE Msg("Application exited with error")
                             /\ exit' = "ok"
                             /\ pc' = "done"
    /\ UNCHANGED <<env, fsDirs, fsFiles, cli, application_dirs, entries,
                   entries_string, output, selected, stdout>>

Next ==
    \/ ReadEntriesDirs
    \/ GetEntries
    \/ SortProject
    \/ NoPicker
    \/ SpawnPicker
    \/ PickerExit
    \/ MatchLookup
    \/ Fallback
    \/ Launch

----------------------------------------------------------------------------
(* Inputs: the environment, the file system and the command line *)

\* at most this many files in one directory
MaxFiles == 1
\* at most this many files in the directory of the launch-centred inputs
MaxLaunchFiles == 2
\* at most this many directories in PATH
MaxPathDirs == 2

Section(type, name, exec, try_exec, path, terminal, no_display, hidden) ==
    [Type |-> type, Name |-> name, Exec |-> exec, TryExec |-> try_exec,
     Path |-> path, Terminal |-> terminal, NoDisplay |-> no_display,
     Hidden |-> hidden]

\* a file of a directory: its name, whether it loads as an ini file, and its
\* "Desktop Entry" section if it has one
File(name, ini) == [name |-> name, loads |-> TRUE, ini |-> ini]

sFooDesktop == <<"f","o","o",".">> \o sDesktop
sBarDesktop == <<"b","a","r",".">> \o sDesktop
sViDesktop == <<"v","i",".">> \o sDesktop
sEdDesktop == <<"e","d",".">> \o sDesktop
sFooTxt == <<"f","o","o",".","t","x","t">>
sVi == <<"v","i">>
sXterm == <<"x","t","e","r","m">>
sXtermTemplate == sXterm \o <<" ","-","e"," ","{","}">>

App(name, no_display, hidden) ==
    Some(Section(Some(sApplication), Some(name), Some(sVi), None, None, None,
                 no_display, hidden))

\* the files of the merge-centred inputs
MergeFiles ==
    { File(sFooDesktop, App(<<"a">>, None, None)),
      File(sFooDesktop, App(<<"a">>, Some(sTrue), None)),
      File(sFooDesktop, App(<<"B">>, None, None)),
      File(sBarDesktop, App(<<"B">>, None, None)),
      File(sBarDesktop, App(<<"a">>, None, Some(sTrue))),
      File(sFooTxt, App(<<"a">>, None, None)) }

\* the sequences of at most n elements of the set
RECURSIVE SeqsUpTo(_, _)
SeqsUpTo(S, n) ==
    IF n = 0 THEN { << >> }
    ELSE LET shorter == SeqsUpTo(S, n - 1)
         IN  shorter \cup
             { Append(l, x) : l \in {y \in shorter : Len(y) = n - 1}, x \in S }

DistinctNames(l) == \A i, j \in 1..Len(l) : l[i].name = l[j].name => i = j

\* what read_dir may answer for one directory: an error, or a listing of at
\* most n files, no two of the same name
DirAnswers(files, n) ==
    {None} \cup {Some(l) : l \in {x \in SeqsUpTo(files, n) : DistinctNames(x)}}

InitRun ==
    /\ pc = "start"
    /\ application_dirs = << >>
    /\ entries = << >>
    /\ entries_string = << >>
    /\ output = << >>
    /\ selected = 0
    /\ spawned = << >>
    /\ stdout = << >>
    /\ message = Msg("")
    /\ exit = "running"

DirsOf(e) == IF ApplicationDirs(e) = None THEN << >> ELSE Unwrap(ApplicationDirs(e))

\* every directory of the run answers read_dir with one of the answers
FsDirsOver(e, answers) ==
    { [k \in 1..Len(DirsOf(e)) |-> <<DirsOf(e)[k], a[k]>>] :
          a \in [1..Len(DirsOf(e)) -> answers] }

Init ==
    /\ env \in [XDG_DATA_HOME : {None, Some(<<"/","x">>)},
                HOME          : {None, Some(<<"/","h">>)},
                XDG_DATA_DIRS : {None, Some(<<"/","s">>)},
                PATH          : {Some(<<"/","b">>)}]
    /\ fsDirs \in FsDirsOver(env, DirAnswers(MergeFiles, MaxFiles))
    /\ fsFiles = {}
    /\ cli \in [entry_type : {"Name", "Filename", "Command"},
                dmenu      : {None, Some(<<"d","m","e","n","u">>)},
                terminal   : {None}]
    /\ InitRun

Spec == Init /\ [][Next]_vars

----------------------------------------------------------------------------
(* Launch-centred inputs: one directory of entries with varied command     *)
(* lines, and every kind of picker command and terminal template           *)

LaunchSection(exec, terminal, path) ==
    Some(Section(Some(sApplication), Some(<<"a">>), Some(exec), None, path,
                 terminal, None, None))

LaunchExecs ==
    { sVi, sVi \o <<" ","a">>, << >>, <<"'">> }

LaunchFiles ==
    { File(n, LaunchSection(x, t, None)) :
          n \in {sViDesktop, sEdDesktop}, x \in LaunchExecs, t \in {None, Some(sTrue)} }
    \cup
    { File(n, LaunchSection(sVi, t, Some(<<"/","t">>))) :
          n \in {sViDesktop, sEdDesktop}, t \in {None, Some(sTrue)} }

LaunchEnv ==
    [XDG_DATA_HOME |-> Some(<<"/","x">>), HOME |-> Some(<<"/","h">>),
     XDG_DATA_DIRS |-> Some(<<"/","s">>), PATH |-> Some(<<"/","b">>)]

InitLaunch ==
    /\ env = LaunchEnv
    /\ \E a \in DirAnswers(LaunchFiles, MaxLaunchFiles) :
           fsDirs = << <<DirsOf(LaunchEnv)[1], a>>, <<DirsOf(LaunchEnv)[2], None>> >>
    /\ fsFiles = {}
    /\ cli \in [entry_type : {"Name", "Filename", "Command"},
                dmenu      : {None, Some(<<"d","m","e","n","u"," ","-","i">>),
                              Some(<< >>), Some(<<"'">>)},
                terminal   : {None, Some(sXtermTemplate), Some(sXterm),
                              Some(sPlaceholder)}]
    /\ InitRun

SpecLaunch == InitLaunch /\ [][Next]_vars

----------------------------------------------------------------------------
(* Resolution-centred inputs: one file with every combination of the keys  *)
(* from_ini reads, and every small PATH and file system; the run is        *)
(* followed to the end of read_entries                                     *)

sViAbs == <<"/","b","/","v","i">>
sViOpt == <<"/","o","/","v","i">>

OptValues(S) == {None} \cup {Some(x) : x \in S}

ResolveSections ==
    { Section(t, n, x, te, None, None, nd, h) :
          t \in OptValues({sApplication, <<"L","i","n","k">>}),
          n \in OptValues({<< >>, <<"a">>}),
          x \in OptValues({<< >>, sVi}),
          te \in OptValues({sVi, sViAbs}),
          nd \in OptValues({sTrue, sFalse}),
          h \in OptValues({sTrue, sFalse}) }

ResolveFiles ==
    { File(sFooDesktop, ini) : ini \in OptValues(ResolveSections) }
        \cup { [name |-> sFooDesktop, loads |-> FALSE, ini |-> None] }

RECURSIVE JoinColon(_)
JoinColon(ds) ==
    IF ds = << >> THEN << >>
    ELSE IF Len(ds) = 1 THEN ds[1]
    ELSE ds[1] \o <<":">> \o JoinColon(Tail(ds))

PathVars ==
    {None} \cup
    {Some(JoinColon(ds)) : ds \in SeqsUpTo({<<"/","b">>, <<"/","o">>}, MaxPathDirs)}

InitResolve ==
    /\ env \in [XDG_DATA_HOME : {Some(<<"/","x">>)},
                HOME          : {None},
                XDG_DATA_DIRS : {Some(<<"/","s">>)},
                PATH          : PathVars]
    /\ \E f \in ResolveFiles :
           fsDirs = << <<DirsOf(env)[1], Some(<<f>>)>>, <<DirsOf(env)[2], Some(<< >>)>> >>
    /\ fsFiles \in SUBSET {sVi, sViAbs, sViOpt}
    /\ cli = [entry_type |-> "Name", dmenu |-> None, terminal |-> None]
    /\ InitRun

NextScan ==
    \/ ReadEntriesDirs
    \/ GetEntries

SpecResolve == InitResolve /\ [][NextScan]_vars

----------------------------------------------------------------------------
(* The claims *)

\* the lines of a text that ends each line with a newline
Lines(text) ==
    LET pieces == SplitOn(text, "\n", << >>)
    IN  SubSeq(pieces, 1, Len(pieces) - 1)

\* the entries that directory k of the run declares
DirEntries(k) == get_entries(DirsOf(env)[k], fsDirs, env.PATH, fsFiles)

\* the projected fields of the visible entries, in the order of es
RECURSIVE VisibleFields(_, _)
VisibleFields(es, entry_type) ==
    IF es = << >> THEN << >>
    ELSE IF Head(es).hide THEN VisibleFields(Tail(es), entry_type)
    ELSE <<field(Head(es), entry_type)>> \o VisibleFields(Tail(es), entry_type)

Projected == pc \in {"menu", "picker", "lookup", "fallback", "launch", "done"}

\* the last process main spawned
LastProc == spawned[Len(spawned)]

AppLaunched ==
    /\ pc = "done"
    /\ selected # 0
    /\ spawned # << >>
    /\ LastProc.kind = "app"

\* C1: once the directories are read, entries holds at most one entry per
\* identifier, and every identifier is represented by the entry of the first
\* directory, in precedence order, that declares it.
C1_OneEntryPerIdentifierFirstWins ==
    pc = "sort" =>
        /\ \A i, j \in 1..Len(entries) :
               entries[i].filename = entries[j].filename => i = j
        /\ \A k \in 1..Len(DirsOf(env)) : \A n \in 1..Len(DirEntries(k)) :
               (\A k2 \in 1..(k - 1) : \A m \in 1..Len(DirEntries(k2)) :
                    DirEntries(k2)[m].filename # DirEntries(k)[n].filename)
               => \E i \in 1..Len(entries) : entries[i] = DirEntries(k)[n]

\* C2: the projected text is one newline-terminated line per visible entry,
\* in case-insensitive name order, and nothing else; it is what the picker
\* is given and what is printed when there is no picker.
C2_ProjectsExactlyTheVisibleEntries ==
    Projected =>
        /\ \A i, j \in 1..Len(entries) : i < j => ~SortKeyLess(entries[j], entries[i])
        /\ entries_string = Unlines(VisibleFields(entries, cli.entry_type))
        /\ \A k \in 1..Len(spawned) :
               spawned[k].kind = "picker" => spawned[k].stdin = entries_string
        /\ (exit = "ok" /\ cli.dmenu = None) => stdout = entries_string

\* C3: the entry that is to be launched is a visible entry whose projected
\* field equals the trimmed choice; a hidden entry is never selected.
C3_OnlyVisibleEntriesAreMatched ==
    pc = "launch" =>
        /\ ~entries[selected].hide
        /\ field(entries[selected], cli.entry_type) = Trim(output)

\* C4, as claimed: with the template "xterm -e {}" and a matched entry that
\* requires a terminal and declares a command line (not an empty one), the
\* program spawned is "xterm" and its arguments are "-e" and the entry's
\* command line as one argument.
C4_CommandLineIsOneArgument ==
    ( /\ AppLaunched
      /\ cli.terminal = Some(sXtermTemplate)
      /\ entries[selected].terminal
      /\ entries[selected].exec # << >> )
        => /\ LastProc.program = sXterm
           /\ LastProc.args = << <<"-","e">>, entries[selected].exec >>

\* C4, amended: with the template "xterm -e {}" and a matched entry that
\* requires a terminal, the program spawned is "xterm" and its arguments are
\* "-e" followed by the tokens of the entry's command line; with the template
\* "{}" the program and arguments are the tokens of the command line.
C4_CommandLineIsTokenized ==
    (AppLaunched /\ entries[selected].terminal) =>
        /\ cli.terminal = Some(sXtermTemplate) =>
               /\ IsSome(ShlexSplit(entries[selected].exec))
               /\ LastProc.program = sXterm
               /\ LastProc.args =
                      << <<"-","e">> >> \o Unwrap(ShlexSplit(entries[selected].exec))
        /\ cli.terminal = Some(sPlaceholder) =>
               /\ IsSome(ShlexSplit(entries[selected].exec))
               /\ <<LastProc.program>> \o LastProc.args =
                      Unwrap(ShlexSplit(entries[selected].exec))

\* a launch through "xterm -e {}" of a command line of more than one token
C4_Witness ==
    /\ AppLaunched
    /\ cli.terminal = Some(sXtermTemplate)
    /\ entries[selected].terminal
    /\ entries[selected].exec = sVi \o <<" ","a">>
    /\ LastProc.args = << <<"-","e">>, sVi, <<"a">> >>

BadTemplate == IsSome(cli.terminal) /\ ~Contains(Unwrap(cli.terminal), sPlaceholder)

\* C5, as claimed: with a terminal template that holds no placeholder (and a
\* picker configured), no process is ever spawned.
C5_BadTemplateNothingSpawned ==
    (BadTemplate /\ IsSome(cli.dmenu)) => spawned = << >>

\* C5, amended: with a terminal template that holds no placeholder, a run in
\* which the matched entry requires a terminal ends in the error "Invalid
\* terminal command" and launches no application: the picker is the only
\* process spawned.
C5_BadTemplateTerminalEntryNotLaunched ==
    (BadTemplate /\ pc = "done" /\ selected # 0 /\ entries[selected].terminal) =>
        /\ exit = "err"
        /\ message = Msg("Invalid terminal command")
        /\ Len(spawned) = 1
        /\ spawned[1].kind = "picker"

\* a run that matched an entry requiring a terminal under a bad template
C5_Witness ==
    /\ BadTemplate
    /\ pc = "done"
    /\ selected # 0
    /\ entries[selected].terminal
    /\ exit = "err"

\* C6: in identifier mode, when no two projected lines are equal, feeding the
\* line of a visible entry (the only visible entry of that identifier) back as
\* the picker's output makes the lookup return that entry.
C6_IdentifierRoundTrip ==
    (cli.entry_type = "Filename" /\ pc \in {"fallback", "launch"}) =>
        LET ls == Lines(entries_string)
        IN  (\A a, b \in 1..Len(ls) : ls[a] = ls[b] => a = b) =>
                \A i \in 1..Len(entries) :
                    ( /\ ~entries[i].hide
                      /\ \E a \in 1..Len(ls) : ls[a] = entries[i].filename
                      /\ \A j \in 1..Len(entries) :
                             (~entries[j].hide /\ entries[j].filename = entries[i].filename)
                                 => j = i
                      /\ output = entries[i].filename \o <<"\n">> )
                    => selected = i

\* C7: on the fallback path with a choice that tokenizes, main ends, and ends
\* successfully unless the command could not be started; the command that
\* ran has no working directory set.
C7_FallbackEndsInSuccess ==
    [][ (pc = "fallback" /\ IsSome(ShlexSplit(Trim(output)))) =>
            /\ pc' = "done"
            /\ \/ /\ exit' = "ok"
                  /\ Len(spawned') = Len(spawned) + 1
                  /\ spawned'[Len(spawned')].kind = "fallback"
                  /\ spawned'[Len(spawned')].cwd = None
               \/ /\ exit' = "err"
                  /\ message' = Msg("output")
                  /\ spawned' = spawned ]_vars

\* C8: the scan of a directory holding one file yields an entry if and only
\* if the file's Type is "Application" and its Name and Exec are present and
\* not empty.
C8_EntryIffApplicationWithNameAndExec ==
    pc = "sort" =>
        LET file == Unwrap(fsDirs[1][2])[1]
            wanted ==
                /\ file.loads
                /\ IsSome(file.ini)
                /\ Unwrap(file.ini).Type = Some(sApplication)
                /\ IsSome(Unwrap(file.ini).Name) /\ Unwrap(Unwrap(file.ini).Name) # << >>
                /\ IsSome(Unwrap(file.ini).Exec) /\ Unwrap(Unwrap(file.ini).Exec) # << >>
        IN  (entries # << >>) <=> wanted

\* whether the try-exec hint exists as a literal path or under a directory of PATH
ExecExists(try_exec) ==
    \/ try_exec = None
    \/ Unwrap(try_exec) \in fsFiles
    \/ /\ IsSome(env.PATH)
       /\ \E k \in 1..Len(SplitPaths(Unwrap(env.PATH))) :
              Join(SplitPaths(Unwrap(env.PATH))[k], Unwrap(try_exec)) \in fsFiles

\* C9: every resolved entry is visible exactly when its try-exec hint, if
\* any, exists as a literal path or under some directory of PATH, and neither
\* NoDisplay nor Hidden is "true".
C9_VisibleIffExecExistsAndNotHidden ==
    pc = "sort" =>
        \A i \in 1..Len(entries) :
            LET section == Unwrap(Unwrap(fsDirs[1][2])[1].ini)
            IN  /\ ~entries[i].hide <=>
                       /\ ExecExists(section.TryExec)
                       /\ section.NoDisplay # Some(sTrue)
                       /\ section.Hidden # Some(sTrue)
                /\ (section.NoDisplay = Some(sTrue) \/ section.Hidden = Some(sTrue))
                       => entries[i].hide
                /\ (section.TryExec = None /\ section.NoDisplay # Some(sTrue)
                        /\ section.Hidden # Some(sTrue)) => ~entries[i].hide

\* a visible entry whose hint is found only under the second directory of PATH
C9_Witness ==
    /\ pc = "sort"
    /\ entries # << >>
    /\ ~entries[1].hide
    /\ IsSome(Unwrap(Unwrap(fsDirs[1][2])[1].ini).TryExec)
    /\ fsFiles = {sViOpt}
    /\ env.PATH = Some(<<"/","b",":","/","o">>)

\* C10: wherever main removes the first token of a tokenized string, the
\* token list is not empty, and no run aborts on an empty token list.
C10_TokenListsNeverEmpty ==
    /\ (pc = "menu" /\ IsSome(cli.dmenu) /\ IsSome(ShlexSplit(Unwrap(cli.dmenu))))
           => Unwrap(ShlexSplit(Unwrap(cli.dmenu))) # << >>
    /\ (pc = "fallback" /\ IsSome(ShlexSplit(Trim(output))))
           => Unwrap(ShlexSplit(Trim(output))) # << >>
    /\ ( /\ pc = "launch"
         /\ IsSome(CommandString(entries[selected], cli.terminal))
         /\ IsSome(ShlexSplit(Unwrap(CommandString(entries[selected], cli.terminal)))) )
           => Unwrap(ShlexSplit(Unwrap(CommandString(entries[selected], cli.terminal)))) # << >>
    /\ exit = "panic" => message = Msg("Output should be valid UTF8")

====
